---- MODULE Spec2Model ----
(***************************************************************************)
(* A model of mcp-elasticsearch: the three tool handlers of                *)
(* ElasticsearchHandler (handleListIndices, handleGetMappings and the full *)
(* handleSearch of handler.go lines 100-424), the JSON decoding they rely  *)
(* on, and the backend client seen as an environment.                      *)
(*                                                                         *)
(* JSON text is a sequence of tokens (one string per punctuation mark,     *)
(* literal or blank); a JSON value is a record                             *)
(*   [t, s, n, m, a]                                                       *)
(* with t the kind, s the content of a string (a text), n the value of a   *)
(* number,                                                                 *)
(* m the members of an object (a function from keys to values) and a the   *)
(* elements of an array.                                                   *)
(***************************************************************************)
EXTENDS Integers, Sequences, FiniteSets, TLC

(***************************************************************************)
(* JSON values                                                             *)
(***************************************************************************)
NoMembers == <<>>

JNull == [t |-> "null", s |-> <<>>, n |-> 0, m |-> NoMembers, a |-> <<>>]

JBool(b) == [t |-> IF b THEN "true" ELSE "false", s |-> <<>>, n |-> 0, m |-> NoMembers, a |-> <<>>]

JNum(i) == [t |-> "number", s |-> <<>>, n |-> i, m |-> NoMembers, a |-> <<>>]

JStr(str) == [t |-> "string", s |-> str, n |-> 0, m |-> NoMembers, a |-> <<>>]

JObj(members) == [t |-> "object", s |-> <<>>, n |-> 0, m |-> members, a |-> <<>>]

JArr(elems) == [t |-> "array", s |-> <<>>, n |-> 0, m |-> NoMembers, a |-> elems]

\* map[key] = v on a Go map: a later duplicate key replaces the earlier one.
Put(members, k, v) == (k :> v) @@ members

Keys(v) == DOMAIN v.m

\* Op applied to the value of v, computed once.
With(v, Op(_)) == CHOOSE y \in { Op(x) : x \in {v} } : TRUE

(***************************************************************************)
(* encoding/json: the scanner and decoder behind json.Unmarshal            *)
(***************************************************************************)
\* Number literals and string literals of the modelled texts, with the value
\* each denotes.
NumLit == ("0" :> 0) @@ ("1" :> 1) @@ ("5" :> 5)

StrLit ==
  ("\"a\"" :> "a") @@ ("\"b\"" :> "b") @@ ("\"match\"" :> "match") @@
  ("\"desc\"" :> "desc") @@ ("\"fields\"" :> "fields") @@ ("\"terms\"" :> "terms")

ErrNone == [kind |-> "none", at |-> ""]

ErrEOF == [kind |-> "eof", at |-> ""]

ErrSyntax(tok) == [kind |-> "syntax", at |-> tok]

ErrType(kind) == [kind |-> "type", at |-> kind]

Parsed(v, nxt) == [err |-> ErrNone, val |-> v, next |-> nxt]

Failed(e) == [err |-> e, val |-> JNull, next |-> 0]

RECURSIVE SkipWS(_, _)
SkipWS(text, i) ==
  IF i <= Len(text) /\ text[i] = " " THEN SkipWS(text, i + 1) ELSE i

RECURSIVE ParseValue(_, _)
RECURSIVE ParseMembers(_, _, _)
RECURSIVE ParseElements(_, _, _)

\* One JSON value starting at position i0 (blanks skipped).
ParseValue(text, i0) ==
  LET i == SkipWS(text, i0) IN
  IF i > Len(text) THEN Failed(ErrEOF)
  ELSE LET tok == text[i] IN
    CASE tok = "{" ->
           LET j == SkipWS(text, i + 1) IN
           IF j <= Len(text) /\ text[j] = "}"
           THEN Parsed(JObj(NoMembers), j + 1)
           ELSE ParseMembers(text, j, NoMembers)
      [] tok = "[" ->
           LET j == SkipWS(text, i + 1) IN
           IF j <= Len(text) /\ text[j] = "]"
           THEN Parsed(JArr(<<>>), j + 1)
           ELSE ParseElements(text, j, <<>>)
      [] tok = "null" -> Parsed(JNull, i + 1)
      [] tok = "true" -> Parsed(JBool(TRUE), i + 1)
      [] tok = "false" -> Parsed(JBool(FALSE), i + 1)
      [] tok \in DOMAIN NumLit -> Parsed(JNum(NumLit[tok]), i + 1)
      [] tok \in DOMAIN StrLit -> Parsed(JStr(<<StrLit[tok]>>), i + 1)
      [] OTHER -> Failed(ErrSyntax(tok))

\* The members of an object after "{" or ",": a key, ":", a value, then "," or "}".
ParseMembers(text, i, members) ==
  IF i > Len(text) THEN Failed(ErrEOF)
  ELSE IF text[i] \notin DOMAIN StrLit THEN Failed(ErrSyntax(text[i]))
  ELSE LET c == SkipWS(text, i + 1) IN
    IF c > Len(text) THEN Failed(ErrEOF)
    ELSE IF text[c] # ":" THEN Failed(ErrSyntax(text[c]))
    ELSE With(ParseValue(text, c + 1), LAMBDA r :
      IF r.err # ErrNone THEN r
      ELSE LET e == SkipWS(text, r.next)
               ms == Put(members, StrLit[text[i]], r.val) IN
        IF e > Len(text) THEN Failed(ErrEOF)
        ELSE IF text[e] = "}" THEN Parsed(JObj(ms), e + 1)
        ELSE IF text[e] = "," THEN ParseMembers(text, SkipWS(text, e + 1), ms)
        ELSE Failed(ErrSyntax(text[e])))

\* The elements of an array after "[" or ",": a value, then "," or "]".
ParseElements(text, i, elems) ==
  With(ParseValue(text, i), LAMBDA r :
    IF r.err # ErrNone THEN r
    ELSE LET e == SkipWS(text, r.next)
             es == Append(elems, r.val) IN
      IF e > Len(text) THEN Failed(ErrEOF)
      ELSE IF text[e] = "]" THEN Parsed(JArr(es), e + 1)
      ELSE IF text[e] = "," THEN ParseElements(text, e + 1, es)
      ELSE Failed(ErrSyntax(text[e])))

\* checkValid: the whole text is one JSON value, blanks around it allowed.
ParseText(text) ==
  With(ParseValue(text, 1), LAMBDA r :
    IF r.err # ErrNone THEN r
    ELSE LET e == SkipWS(text, r.next) IN
      IF e <= Len(text) THEN Failed(ErrSyntax(text[e])) ELSE r)

\* json.Unmarshal(text, &v) with v of type any: every JSON value decodes;
\* null leaves v nil, which marshals back as null.
UnmarshalAny(text) == ParseText(text)

\* json.Unmarshal(text, &v) with v a nil map[string]any: an object decodes,
\* null leaves the map nil (length 0, marshalled as null), any other value is
\* an UnmarshalTypeError.
UnmarshalMap(text) ==
  With(ParseText(text), LAMBDA r :
    IF r.err # ErrNone THEN r
    ELSE IF r.val.t \in {"object", "null"} THEN r
    ELSE Failed(ErrType(r.val.t)))

\* The text of a decoding error, as fmt's %v prints it.
ErrText(e) ==
  CASE e.kind = "eof" -> <<"unexpected end of JSON input">>
    [] e.kind = "syntax" -> <<"invalid character ", e.at>>
    [] e.kind = "type" ->
         <<"json: cannot unmarshal ", e.at, " into Go value of type map[string]interface {}">>
    [] OTHER -> <<>>

(***************************************************************************)
(* Machine integers                                                        *)
(***************************************************************************)
\* Go's int is a two's-complement machine word whose sum wraps silently.
\* TLC's integers are narrower than the platform's 64 bits, so the word is
\* modelled IntWidth bits wide, wide enough for every constant of the code,
\* and the sum wraps the same way: Wrap(x) is x modulo 2^IntWidth taken in
\* [MinInt, MaxInt].
IntWidth == 16

MaxInt == 2 ^ (IntWidth - 1) - 1

MinInt == -(2 ^ (IntWidth - 1))

Wrap(n) == ((n - MinInt) % (2 ^ IntWidth)) + MinInt

IntAdd(a, b) == Wrap(a + b)

(***************************************************************************)
(* Tool arguments (mcp.CallToolRequest) and their accessors                *)
(***************************************************************************)
\* An argument is [set, typed, v]: set when the caller supplied it, typed when
\* what was supplied has the type the accessor reads, v its value.  Texts are
\* token sequences.
Absent(zero) == [set |-> FALSE, typed |-> FALSE, v |-> zero]

Given(v) == [set |-> TRUE, typed |-> TRUE, v |-> v]

WrongType(zero) == [set |-> TRUE, typed |-> FALSE, v |-> zero]

\* request.RequireString(key): an error unless the argument is there and is a
\* string; the empty string is a string.
RequireString(arg) ==
  IF arg.set /\ arg.typed THEN [err |-> FALSE, v |-> arg.v]
  ELSE [err |-> TRUE, v |-> <<>>]

\* request.GetString / GetInt / GetBool (key, default).
GetString(arg, default) == IF arg.set /\ arg.typed THEN arg.v ELSE default

GetInt(arg, default) == IF arg.set /\ arg.typed THEN arg.v ELSE default

GetBool(arg, default) == IF arg.set /\ arg.typed THEN arg.v ELSE default

(***************************************************************************)
(* Tool results (mcp.CallToolResult) and backend calls                     *)
(***************************************************************************)
\* mcp.NewToolResultError(text), returned with a nil Go error.
ToolResultError(text) ==
  [isError |-> TRUE, text |-> text, payload |-> JNull, goErr |-> FALSE]

\* mcp.NewToolResultText(string(jsonBytes)): payload is the marshalled document.
ToolResultText(doc) ==
  [isError |-> FALSE, text |-> <<>>, payload |-> doc, goErr |-> FALSE]

NoResult == [isError |-> FALSE, text |-> <<>>, payload |-> JNull, goErr |-> FALSE]

NoOption == [set |-> FALSE, v |-> <<>>]

Option(v) == [set |-> TRUE, v |-> v]

\* What a handler run comes to: it returned (call is empty) or it issued the
\* backend call and waits for it.  unmarshalled lists the fields json.Unmarshal
\* was applied to, in order.
Returned(res, fields) ==
  [returned |-> TRUE, result |-> res, call |-> <<>>, unmarshalled |-> fields]

\* Dispatched with the call issued a second time.
DispatchedTwice(call, fields) ==
  [returned |-> FALSE, result |-> NoResult, call |-> <<call, call>>, unmarshalled |-> fields]

Dispatched(call, fields) ==
  [returned |-> FALSE, result |-> NoResult, call |-> <<call>>, unmarshalled |-> fields]

(***************************************************************************)
(* handleSearch: validation and assembly of the request                    *)
(***************************************************************************)
MaxResultWindow == 10000

DefaultSize == 10

DefaultQueryString == <<"{", "}">>

MatchAll == JObj("match_all" :> JObj(NoMembers))

\* The three pagination checks, in the code's order; <<>> when all pass.
PaginationError(size, from) ==
  IF size < 0 \/ size > MaxResultWindow
  THEN <<"Size parameter must be between 0 and 10000">>
  ELSE IF from < 0
  THEN <<"From parameter must be >= 0">>
  ELSE IF IntAdd(from, size) > MaxResultWindow
  THEN <<"from + size must not exceed 10000">>
  ELSE <<>>

\* ParseQuery as the reduced handleSearch has it: json.Unmarshal of whatever
\* text was given, and no match_all default.
ParseQueryNoDefault(queryString) ==
  With(UnmarshalMap(queryString), LAMBDA r :
    IF r.err # ErrNone
    THEN [err |-> r.err, query |-> JNull, parsed |-> TRUE]
    ELSE [err |-> ErrNone, query |-> r.val, parsed |-> TRUE])

\* "Parse query JSON": the default for "{}" and "", else json.Unmarshal into a
\* map, an empty map being replaced by match_all.  parsed tells whether
\* json.Unmarshal ran.
ParseQuery(queryString) ==
  IF queryString = DefaultQueryString \/ queryString = <<>>
  THEN [err |-> ErrNone, query |-> MatchAll, parsed |-> FALSE]
  ELSE With(UnmarshalMap(queryString), LAMBDA r :
    IF r.err # ErrNone
    THEN [err |-> r.err, query |-> JNull, parsed |-> TRUE]
    ELSE IF Cardinality(Keys(r.val)) = 0
    THEN [err |-> ErrNone, query |-> MatchAll, parsed |-> TRUE]
    ELSE [err |-> ErrNone, query |-> r.val, parsed |-> TRUE])

\* BaseSearchRequest with track_total_hits written whatever its value.
BaseSearchRequestAlwaysTracking(query, size, from, trackTotalHits, timeout) ==
  LET base == ("query" :> query) @@ ("size" :> JNum(size)) @@ ("from" :> JNum(from)) @@
              ("track_total_hits" :> JBool(trackTotalHits))
  IN IF timeout # <<>> THEN Put(base, "timeout", JStr(timeout)) ELSE base

\* "Build search request": query, size, from, then track_total_hits and
\* timeout when set.
BaseSearchRequest(query, size, from, trackTotalHits, timeout) ==
  LET base == ("query" :> query) @@ ("size" :> JNum(size)) @@ ("from" :> JNum(from))
      tth == IF trackTotalHits THEN Put(base, "track_total_hits", JBool(TRUE)) ELSE base
  IN IF timeout # <<>> THEN Put(tth, "timeout", JStr(timeout)) ELSE tth

\* The optional JSON sub-fields in the code's order: the body key, the name
\* the error message uses, and the Go type json.Unmarshal decodes into.
OptionalFields ==
  << [key |-> "sort", label |-> "sort", into |-> "any"],
     [key |-> "aggs", label |-> "aggregations", into |-> "map"],
     [key |-> "_source", label |-> "_source", into |-> "any"],
     [key |-> "highlight", label |-> "highlight", into |-> "map"] >>

Unmarshal(text, into) == IF into = "map" THEN UnmarshalMap(text) ELSE UnmarshalAny(text)

\* AddOptional without the return in its error branch: a field that does not
\* decode is left out and the handler goes on.
AddOptionalSkippingErrors(acc, field, text) ==
  IF text = <<>> THEN acc
  ELSE With(Unmarshal(text, field.into), LAMBDA r :
    LET seen == Append(acc.unmarshalled, field.key) IN
    IF r.err # ErrNone
    THEN [acc EXCEPT !.unmarshalled = seen]
    ELSE [acc EXCEPT !.body = Put(acc.body, field.key, r.val), !.unmarshalled = seen])

\* One "Parse and add ... if provided" block: skipped for the empty string,
\* else the decoded value is stored under the key, or the decoding error ends
\* the handler.
AddOptional(acc, field, text) ==
  IF text = <<>> THEN acc
  ELSE With(Unmarshal(text, field.into), LAMBDA r :
    LET seen == Append(acc.unmarshalled, field.key) IN
    IF r.err # ErrNone
    THEN [acc EXCEPT !.err = r.err, !.label = field.label, !.unmarshalled = seen]
    ELSE [acc EXCEPT !.body = Put(acc.body, field.key, r.val), !.unmarshalled = seen])

\* The four blocks in sequence; the first error stops the rest.
RECURSIVE AddOptionals(_, _, _)
AddOptionals(acc, texts, k) ==
  IF k > Len(OptionalFields) \/ acc.err # ErrNone THEN acc
  ELSE With(AddOptional(acc, OptionalFields[k], texts[k]),
            LAMBDA next : AddOptionals(next, texts, k + 1))

InvalidJSON(label, e) == <<"Invalid " , label, " JSON: ">> \o ErrText(e)

\* SearchCall without WithContext(ctx): the call runs on the background context.
SearchCallWithoutContext(index, body, trackTotalHits, timeout) ==
  [api |-> "Search", ctx |-> FALSE, index |-> index, body |-> JObj(body),
   trackTotalHits |-> Option(trackTotalHits),
   timeout |-> IF timeout # <<>> THEN Option(timeout) ELSE NoOption]

\* "Build search options": the context, the index, the body,
\* WithTrackTotalHits always and WithTimeout when a timeout was given.
SearchCall(index, body, trackTotalHits, timeout) ==
  [api |-> "Search", ctx |-> TRUE, index |-> index, body |-> JObj(body),
   trackTotalHits |-> Option(trackTotalHits),
   timeout |-> IF timeout # <<>> THEN Option(timeout) ELSE NoOption]

\* handleSearch up to and including client.Search.
SearchRun(r) ==
  LET index == RequireString(r.index) IN
  IF index.err THEN Returned(ToolResultError(<<"Missing 'index' parameter">>), <<>>)
  ELSE
    LET queryString == GetString(r.query, DefaultQueryString)
        size == GetInt(r.size, DefaultSize)
        from == GetInt(r.from, 0)
        texts == << GetString(r.sort, <<>>), GetString(r.aggs, <<>>),
                    GetString(r.source, <<>>), GetString(r.highlight, <<>>) >>
        trackTotalHits == GetBool(r.track_total_hits, TRUE)
        timeout == GetString(r.timeout, <<>>)
        page == PaginationError(size, from)
    IN
    IF page # <<>> THEN Returned(ToolResultError(page), <<>>)
    ELSE
      With(ParseQuery(queryString), LAMBDA q :
        LET qseen == IF q.parsed THEN <<"query">> ELSE <<>> IN
        IF q.err # ErrNone
        THEN Returned(ToolResultError(InvalidJSON("query", q.err)), qseen)
        ELSE
          LET start == [err |-> ErrNone, label |-> "",
                        body |-> BaseSearchRequest(q.query, size, from, trackTotalHits, timeout),
                        unmarshalled |-> qseen]
          IN
          With(AddOptionals(start, texts, 1), LAMBDA acc :
            IF acc.err # ErrNone
            THEN Returned(ToolResultError(InvalidJSON(acc.label, acc.err)), acc.unmarshalled)
            ELSE Dispatched(SearchCall(index.v, acc.body, trackTotalHits, timeout),
                            acc.unmarshalled)))

(***************************************************************************)
(* The backend client (go-elasticsearch) and the cluster behind it         *)
(***************************************************************************)
\* What a client call comes to: an error (no response), or a response with a
\* status and a body.  malformed marks a body that is not JSON text.
ClientError(text) ==
  [kind |-> "error", err |-> text, status |-> 0, body |-> JNull, malformed |-> FALSE]

Response(status, body) ==
  [kind |-> "response", err |-> <<>>, status |-> status, body |-> body, malformed |-> FALSE]

Garbled(status) ==
  [kind |-> "response", err |-> <<>>, status |-> status, body |-> JNull, malformed |-> TRUE]

NoReply == [kind |-> "none", err |-> <<>>, status |-> 0, body |-> JNull, malformed |-> FALSE]

ContextCanceled == <<"context canceled">>

\* IsError without the status test: every response counts as accepted.
IsErrorNever(rep) == FALSE

\* res.IsError(): a status above 299.
IsError(rep) == rep.status > 299

\* res.String()
ResString(rep) == <<"[", IF rep.status = 404 THEN "404 Not Found" ELSE "500 Internal Server Error", "]">>

\* A call made WithContext(ctx) ends with ctx's error once ctx is done and
\* delivers nothing else; otherwise it ends with a transport error or with
\* one of the backend's responses.
ClientOutcomes(call, done, responses) ==
  IF call.ctx /\ done THEN {ClientError(ContextCanceled)}
  ELSE {ClientError(<<"connection refused">>)} \cup responses

\* The indices of the cluster, as _cat/indices reports them, in its order.
CatRow(name, health, docs) ==
  JObj(("index" :> JStr(name)) @@ ("health" :> JStr(<<health>>)) @@
       ("status" :> JStr(<<"open">>)) @@ ("uuid" :> JStr(<<"u">> \o name)) @@
       ("docs.count" :> JStr(<<docs>>)) @@ ("docs.deleted" :> JStr(<<"0">>)) @@
       ("store.size" :> JStr(<<"1kb">>)) @@ ("pri.store.size" :> JStr(<<"1kb">>)) @@
       ("pri" :> JStr(<<"1">>)) @@ ("rep" :> JStr(<<"0">>)) @@
       ("creation.date" :> JStr(<<"17">>)) @@ ("creation.date.string" :> JNull))

Cluster ==
  << CatRow(<<"logs-", "a">>, "green", "12"),
     CatRow(<<"logs-", "b">>, "yellow", "0"),
     CatRow(<<"metrics-", "a">>, "green", "7") >>

\* The backend's wildcard match of an index name against a pattern.
RECURSIVE Glob(_, _)
Glob(pattern, name) ==
  IF pattern = <<>> THEN name = <<>>
  ELSE IF Head(pattern) = "*"
  THEN Glob(Tail(pattern), name) \/ (name # <<>> /\ Glob(pattern, Tail(name)))
  ELSE name # <<>> /\ Head(name) = Head(pattern) /\ Glob(Tail(pattern), Tail(name))

Matching(pattern) == SelectSeq(Cluster, LAMBDA row: Glob(pattern, row.m["index"].s))

\* The backend's answers to _cat/indices: the matching rows (404 when a name
\* without wildcard matches nothing), a failure, or a body that does not
\* decode into []IndexInfo.
CatIndicesResponses(call) ==
  { IF Matching(call.index) = <<>> /\ "*" \notin { call.index[k] : k \in DOMAIN call.index }
    THEN Response(404, JNull)
    ELSE Response(200, JArr(Matching(call.index))),
    Response(500, JNull), Garbled(200), Response(200, JObj(NoMembers)) }

\* The backend's answers to _mapping.
MappingOf(name) ==
  name :> JObj("mappings" :> JObj("properties" :> JObj("a" :> JObj("type" :> JStr(<<"keyword">>)))))

GetMappingResponses(call) ==
  { Response(200, JObj(MappingOf("logs-a") @@ MappingOf("logs-b"))),
    Response(200, JObj(NoMembers)), Response(404, JNull), Garbled(200),
    Response(200, JArr(<<>>)) }

\* The backend's answers to _search.
Doc(id) == JObj(("_id" :> JStr(<<id>>)) @@ ("_score" :> JNum(1)))

Bucket == JObj("buckets" :> JArr(<<>>))

SearchReply(took, score, hits, aggs) ==
  LET base == ("took" :> JNum(took)) @@ ("timed_out" :> JBool(FALSE)) @@
              ("_shards" :> JObj(("total" :> JNum(1)) @@ ("failed" :> JNum(0)))) @@
              ("hits" :> JObj(hits @@ ("total" :> JObj(("value" :> JNum(took)) @@
                                                      ("relation" :> JStr(<<"eq">>)))) @@
                              ("max_score" :> score)))
  IN JObj(aggs @@ base)

SearchResponses(call) ==
  { Response(200, SearchReply(2, JNum(1), "hits" :> JArr(<<Doc("1"), Doc("2")>>), NoMembers)),
    Response(200, SearchReply(2, JNum(1), "hits" :> JArr(<<Doc("2"), Doc("1")>>),
                              "aggregations" :> JObj("by_a" :> Bucket))),
    Response(200, SearchReply(0, JNull, "hits" :> JArr(<<>>),
                              "aggregations" :> JObj(NoMembers))),
    Response(200, SearchReply(2, JNum(1), "hits" :> JArr(<<Doc("1"), Doc("1")>>),
                              "aggregations" :> JNull)),
    Response(200, SearchReply(0, JNull, NoMembers,
                              "aggregations" :> JObj(("by_a" :> Bucket) @@ ("by_b" :> Bucket)))),
    Response(200, SearchReply(1, JNum(1), "hits" :> JStr(<<"none">>), NoMembers)),
    Response(404, JNull), Garbled(200) }

(***************************************************************************)
(* Decoding the replies (json.NewDecoder(res.Body).Decode)                 *)
(***************************************************************************)
Field(obj, key) == IF key \in Keys(obj) THEN obj.m[key] ELSE JNull

\* A struct field of the given JSON kinds: a missing key or null leaves the
\* zero value, another kind is an UnmarshalTypeError.
FieldOK(obj, key, kinds) == Field(obj, key).t \in kinds \cup {"null"}

AsObject(v) == IF v.t = "object" THEN v ELSE JObj(NoMembers)

DecodeError(rep, shapeOK) ==
  IF rep.malformed THEN ErrSyntax("<")
  ELSE IF ~shapeOK THEN ErrType(rep.body.t)
  ELSE ErrNone

\* into []IndexInfo: every field a string.
IndexInfoKeys ==
  {"index", "health", "status", "uuid", "docs.count", "docs.deleted", "store.size",
   "pri.store.size", "pri", "rep", "creation.date", "creation.date.string"}

IndexInfoOK(row) ==
  /\ row.t \in {"object", "null"}
  /\ \A k \in IndexInfoKeys : FieldOK(AsObject(row), k, {"string"})

IndicesShapeOK(body) ==
  /\ body.t \in {"array", "null"}
  /\ \A k \in DOMAIN body.a : IndexInfoOK(body.a[k])

\* A decoded string field: "" for a missing key or null.
StringOf(row, key) == Field(AsObject(row), key).s

\* into map[string]any.
MapShapeOK(body) == body.t \in {"object", "null"}

\* into SearchResponse.
SearchShapeOK(body) ==
  /\ body.t \in {"object", "null"}
  /\ LET top == AsObject(body)
         hits == AsObject(Field(top, "hits"))
         total == AsObject(Field(hits, "total")) IN
     /\ FieldOK(top, "took", {"number"})
     /\ FieldOK(top, "timed_out", {"true", "false"})
     /\ FieldOK(top, "_shards", {"object"})
     /\ FieldOK(top, "hits", {"object"})
     /\ FieldOK(hits, "total", {"object"})
     /\ FieldOK(total, "value", {"number"})
     /\ FieldOK(total, "relation", {"string"})
     /\ FieldOK(hits, "max_score", {"number"})
     /\ FieldOK(hits, "hits", {"array"})
     /\ \A k \in DOMAIN Field(hits, "hits").a :
          Field(hits, "hits").a[k].t \in {"object", "null"}
     /\ FieldOK(top, "aggregations", {"object"})

\* The decoded SearchResponse: zero values for what the reply leaves out.  A
\* nil map or slice is JNull, as json.Marshal writes it.
DecodeSearchResponse(body) ==
  LET top == AsObject(body)
      hits == AsObject(Field(top, "hits"))
      total == AsObject(Field(hits, "total")) IN
  [Took |-> Field(top, "took").n,
   TimedOut |-> Field(top, "timed_out").t = "true",
   Shards |-> Field(top, "_shards"),
   TotalValue |-> Field(total, "value").n,
   MaxScore |-> Field(hits, "max_score"),
   Hits |-> Field(hits, "hits"),
   Aggregations |-> Field(top, "aggregations")]

(***************************************************************************)
(* handleSearch: from the client's answer to the result                    *)
(***************************************************************************)
\* AddAggregations with the nil test alone: an empty map is added too.
AddAggregationsWhenNotNil(response, aggregations) ==
  IF aggregations.t # "null"
  THEN Put(response, "aggregations", aggregations)
  ELSE response

\* "Add aggregations to response if present": only a non-nil map with at
\* least one entry is added.
AddAggregations(response, aggregations) ==
  IF aggregations.t # "null" /\ Cardinality(Keys(aggregations)) > 0
  THEN Put(response, "aggregations", aggregations)
  ELSE response

\* SearchResponseDoc with the hits in reverse order.
SearchResponseDocReversedHits(index, size, from, sr) ==
  LET hits == sr.Hits.a IN
  JObj(AddAggregations(
         ("index" :> JStr(index)) @@ ("took" :> JNum(sr.Took)) @@
         ("timed_out" :> JBool(sr.TimedOut)) @@ ("total_hits" :> JNum(sr.TotalValue)) @@
         ("max_score" :> sr.MaxScore) @@
         ("hits" :> JArr([k \in 1..Len(hits) |-> hits[Len(hits) + 1 - k]])) @@
         ("shards" :> sr.Shards) @@ ("from" :> JNum(from)) @@ ("size" :> JNum(size)),
         sr.Aggregations))

\* "Build response with metadata".
SearchResponseDoc(index, size, from, sr) ==
  JObj(AddAggregations(
         ("index" :> JStr(index)) @@ ("took" :> JNum(sr.Took)) @@
         ("timed_out" :> JBool(sr.TimedOut)) @@ ("total_hits" :> JNum(sr.TotalValue)) @@
         ("max_score" :> sr.MaxScore) @@ ("hits" :> sr.Hits) @@ ("shards" :> sr.Shards) @@
         ("from" :> JNum(from)) @@ ("size" :> JNum(size)),
         sr.Aggregations))

\* handleSearch after client.Search returned rep.
SearchFinish(r, rep) ==
  IF rep.kind = "error"
  THEN ToolResultError(<<"Failed to execute search: ">> \o rep.err)
  ELSE IF IsError(rep)
  THEN ToolResultError(<<"Elasticsearch search error: ">> \o ResString(rep))
  ELSE LET e == DecodeError(rep, SearchShapeOK(rep.body)) IN
    IF e # ErrNone
    THEN ToolResultError(<<"Failed to decode response: ">> \o ErrText(e))
    ELSE ToolResultText(SearchResponseDoc(RequireString(r.index).v,
                                          GetInt(r.size, DefaultSize), GetInt(r.from, 0),
                                          DecodeSearchResponse(rep.body)))

(***************************************************************************)
(* handleGetMappings                                                       *)
(***************************************************************************)
GetMappingCall(index) ==
  [api |-> "Indices.GetMapping", ctx |-> TRUE, index |-> index, body |-> JNull,
   trackTotalHits |-> NoOption, timeout |-> NoOption]

\* handleGetMappings up to and including client.Indices.GetMapping.
GetMappingsRun(r) ==
  LET index == RequireString(r.index) IN
  IF index.err THEN Returned(ToolResultError(<<"Missing 'index' parameter">>), <<>>)
  ELSE Dispatched(GetMappingCall(index.v), <<>>)

\* handleGetMappings after the client returned rep.
GetMappingsFinish(r, rep) ==
  IF rep.kind = "error"
  THEN ToolResultError(<<"Failed to get mappings: ">> \o rep.err)
  ELSE IF IsError(rep)
  THEN ToolResultError(<<"Elasticsearch error: ">> \o ResString(rep))
  ELSE LET e == DecodeError(rep, MapShapeOK(rep.body)) IN
    IF e # ErrNone
    THEN ToolResultError(<<"Failed to decode response: ">> \o ErrText(e))
    ELSE ToolResultText(JObj(("index" :> JStr(RequireString(r.index).v)) @@
                             ("mappings" :> rep.body)))

(***************************************************************************)
(* handleListIndices                                                       *)
(***************************************************************************)
DefaultPattern == <<"*">>

CatIndicesCall(pattern) ==
  [api |-> "Cat.Indices", ctx |-> TRUE, index |-> pattern, body |-> JNull,
   trackTotalHits |-> NoOption, timeout |-> NoOption]

\* handleListIndices up to and including client.Cat.Indices.
ListIndicesRun(r) ==
  Dispatched(CatIndicesCall(GetString(r.pattern, DefaultPattern)), <<>>)

\* One entry of the result, the index name read from the reply's nameKey.
IndexEntryFrom(row, nameKey) ==
  JObj(("name" :> JStr(StringOf(row, nameKey))) @@
       ("health" :> JStr(StringOf(row, "health"))) @@
       ("status" :> JStr(StringOf(row, "status"))) @@
       ("uuid" :> JStr(StringOf(row, "uuid"))) @@
       ("docs_count" :> JStr(StringOf(row, "docs.count"))) @@
       ("docs_deleted" :> JStr(StringOf(row, "docs.deleted"))) @@
       ("store_size" :> JStr(StringOf(row, "store.size"))) @@
       ("primary_size" :> JStr(StringOf(row, "pri.store.size"))) @@
       ("primary_count" :> JStr(StringOf(row, "pri"))) @@
       ("replica_count" :> JStr(StringOf(row, "rep"))) @@
       ("creation_date" :> JStr(StringOf(row, "creation.date"))) @@
       ("creation_time" :> JStr(StringOf(row, "creation.date.string"))))

\* IndexEntry with IndexInfo.Name tagged json:"name", as the reduced handler
\* declares it: _cat/indices has no such column.
IndexEntryByNameTag(row) == IndexEntryFrom(row, "name")

\* "Convert to a more readable format": one map per decoded IndexInfo, Name
\* being the reply's "index".
IndexEntry(row) == IndexEntryFrom(row, "index")

\* var result []map[string]any, appended to once per index: it stays nil, and
\* is marshalled as null, when there is none.
ConvertIndices(rows) ==
  IF Len(rows) = 0 THEN JNull
  ELSE JArr([k \in 1..Len(rows) |-> IndexEntry(rows[k])])

ListResponseDoc(pattern, rows) ==
  JObj(("total_indices" :> JNum(Len(rows))) @@ ("pattern" :> JStr(pattern)) @@
       ("indices" :> ConvertIndices(rows)))

\* handleListIndices after the client returned rep.
ListIndicesFinish(r, rep) ==
  IF rep.kind = "error"
  THEN ToolResultError(<<"Failed to list indices: ">> \o rep.err)
  ELSE IF IsError(rep)
  THEN ToolResultError(<<"Elasticsearch error: ">> \o ResString(rep))
  ELSE LET e == DecodeError(rep, IndicesShapeOK(rep.body)) IN
    IF e # ErrNone
    THEN ToolResultError(<<"Failed to decode response: ">> \o ErrText(e))
    ELSE ToolResultText(ListResponseDoc(GetString(r.pattern, DefaultPattern), rep.body.a))

(***************************************************************************)
(* The requests a caller can make                                          *)
(***************************************************************************)
Texts ==
  [empty |-> <<>>,
   emptyObject |-> <<"{", "}">>,
   blankObject |-> <<" ", "{", "}">>,
   null |-> <<"null">>,
   match |-> <<"{", "\"match\"", ":", "{", "\"a\"", ":", "1", "}", "}">>,
   cut |-> <<"{", "\"a\"">>,
   array |-> <<"[", "\"a\"", "]">>,
   sort |-> <<"[", "{", "\"a\"", ":", "\"desc\"", "}", "]">>,
   aggs |-> <<"{", "\"a\"", ":", "{", "\"terms\"", ":", "{", "}", "}", "}">>,
   highlight |-> <<"{", "\"fields\"", ":", "{", "\"a\"", ":", "{", "}", "}", "}">>,
   junk |-> <<"x", "1">>]

Fields ==
  {"pattern", "index", "query", "size", "from", "sort", "aggs", "source",
   "highlight", "track_total_hits", "timeout"}

\* The arguments each tool reads.
FieldsOf(t) ==
  CASE t = "list_indices" -> {"pattern"}
    [] t = "get_index_mappings" -> {"index"}
    [] OTHER -> Fields \ {"pattern"}

\* A request every check of which passes.
PlainRequest ==
  [pattern |-> Absent(<<>>), index |-> Given(<<"logs-", "*">>), query |-> Absent(<<>>),
   size |-> Absent(0), from |-> Absent(0), sort |-> Absent(<<>>), aggs |-> Absent(<<>>),
   source |-> Absent(<<>>), highlight |-> Absent(<<>>),
   track_total_hits |-> Absent(FALSE), timeout |-> Absent(<<>>)]

\* The values an argument is drawn from.
ArgValues(f) ==
  CASE f = "pattern" ->
         { Given(<<"*">>), Given(<<"logs-", "*">>), Given(<<"metrics-", "a">>),
           Given(<<"none-", "*">>), Given(<<"none">>) }
    [] f = "index" -> { Absent(<<>>), WrongType(<<>>), Given(<<>>), Given(<<"logs-", "a">>) }
    [] f = "query" ->
         { Given(Texts.empty), Given(Texts.emptyObject), Given(Texts.blankObject),
           Given(Texts.null), Given(Texts.match), Given(Texts.cut), Given(Texts.array) }
    [] f = "size" ->
         { Given(-1), Given(0), Given(5), Given(MaxResultWindow),
           Given(MaxResultWindow + 1), Given(MinInt) }
    [] f = "from" ->
         { Given(-1), Given(1), Given(MaxResultWindow - 5), Given(MaxResultWindow - 4),
           Given(MaxResultWindow), Given(MaxInt) }
    [] f = "sort" -> { Given(Texts.empty), Given(Texts.sort), Given(Texts.null), Given(Texts.junk) }
    [] f = "aggs" ->
         { Given(Texts.aggs), Given(Texts.emptyObject), Given(Texts.null),
           Given(Texts.array), Given(Texts.cut) }
    [] f = "source" -> { Given(Texts.array), Given(Texts.null), Given(Texts.junk) }
    [] f = "highlight" -> { Given(Texts.highlight), Given(Texts.sort), Given(Texts.cut) }
    [] f = "track_total_hits" -> { Given(TRUE), Given(FALSE) }
    [] OTHER -> { Given(<<>>), Given(<<"5s">>) }

\* At most MaxVaried arguments of a request differ from PlainRequest.
MaxVaried == 2

Choice(f, varied) == IF f \in varied THEN ArgValues(f) ELSE {PlainRequest[f]}

Requests(t) ==
  UNION { [pattern : Choice("pattern", V), index : Choice("index", V),
           query : Choice("query", V), size : Choice("size", V), from : Choice("from", V),
           sort : Choice("sort", V), aggs : Choice("aggs", V), source : Choice("source", V),
           highlight : Choice("highlight", V),
           track_total_hits : Choice("track_total_hits", V),
           timeout : Choice("timeout", V)] :
          V \in { W \in SUBSET FieldsOf(t) : Cardinality(W) <= MaxVaried } }

Tools == {"list_indices", "get_index_mappings", "search"}

(***************************************************************************)
(* Startup: loadConfig, newElasticsearchHandler, run                       *)
(***************************************************************************)
\* The process environment after godotenv.Overload(): one string per
\* variable, "" for a variable that is unset or set to nothing (os.Getenv
\* does not tell the two apart).
EnvURL == "http://es:9200"

DefaultURL == "http://localhost:9200"

Environs ==
  [ES_URL : {"", EnvURL, "://es"}, ES_API_KEY : {"", "key"}, ES_USERNAME : {"", "elastic"},
   ES_PASSWORD : {"", "secret"}, MCP_ES_LOG_LEVEL : {"", "debug", "verbose"}]

\* An environment with which startup succeeds.
PlainEnviron ==
  [ES_URL |-> EnvURL, ES_API_KEY |-> "key", ES_USERNAME |-> "", ES_PASSWORD |-> "",
   MCP_ES_LOG_LEVEL |-> ""]

getEnv(env, key, defaultValue) == IF env[key] # "" THEN env[key] ELSE defaultValue

NoConfig == [URL |-> "", APIKey |-> "", Username |-> "", Password |-> "", Level |-> ""]

validLogLevels == {"debug", "info", "warn", "error", "fatal"}

\* The error validateConfig returns, <<>> for nil.
validateConfig(config) ==
  IF config.URL = ""
  THEN <<"ES_URL environment variable is required">>
  ELSE IF config.APIKey = "" /\ (config.Username = "" \/ config.Password = "")
  THEN <<"either ES_API_KEY or ES_USERNAME+ES_PASSWORD must be provided">>
  ELSE IF config.Level \notin validLogLevels
  THEN <<"invalid log level: ", config.Level>>
  ELSE <<>>

loadConfig(env) ==
  LET config == [URL |-> getEnv(env, "ES_URL", DefaultURL),
                 APIKey |-> getEnv(env, "ES_API_KEY", ""),
                 Username |-> getEnv(env, "ES_USERNAME", ""),
                 Password |-> getEnv(env, "ES_PASSWORD", ""),
                 Level |-> getEnv(env, "MCP_ES_LOG_LEVEL", "info")]
      err == validateConfig(config) IN
  IF err # <<>> THEN [err |-> <<"invalid configuration: ">> \o err, config |-> NoConfig]
  ELSE [err |-> <<>>, config |-> config]

\* elasticsearch.Config: the address and the credentials set on it.
NoClient == [Addresses |-> <<>>, APIKey |-> "", Username |-> "", Password |-> ""]

\* esCfg with the two authentication blocks not exclusive: basic credentials
\* are set also when an API key is.
esCfgBothMethods(cfg) ==
  [Addresses |-> <<cfg.URL>>,
   APIKey |-> cfg.APIKey,
   Username |-> IF cfg.Username # "" /\ cfg.Password # "" THEN cfg.Username ELSE "",
   Password |-> IF cfg.Username # "" /\ cfg.Password # "" THEN cfg.Password ELSE ""]

\* "Set authentication method": the API key when there is one, else user name
\* and password when both are there.
esCfg(cfg) ==
  IF cfg.APIKey # ""
  THEN [Addresses |-> <<cfg.URL>>, APIKey |-> cfg.APIKey, Username |-> "", Password |-> ""]
  ELSE IF cfg.Username # "" /\ cfg.Password # ""
  THEN [Addresses |-> <<cfg.URL>>, APIKey |-> "", Username |-> cfg.Username,
        Password |-> cfg.Password]
  ELSE [Addresses |-> <<cfg.URL>>, APIKey |-> "", Username |-> "", Password |-> ""]

\* elasticsearch.NewClient: an error for an address that is no URL.
NewClientError(es) ==
  IF es.Addresses = <<"://es">> THEN <<"cannot create client: cannot parse url">> ELSE <<>>

\* client.Info() is called without a context.
InfoCall == [api |-> "Info", ctx |-> FALSE]

InfoResponses == { Response(200, JObj(NoMembers)), Response(401, JNull), Response(503, JNull) }

\* connectionError with the status of the reply not looked at.
connectionErrorStatusIgnored(rep) ==
  IF rep.kind = "error" THEN <<"error connecting to elasticsearch: ">> \o rep.err
  ELSE <<>>

\* "Test connection": the error newElasticsearchHandler returns for what
\* client.Info() came to, <<>> for nil.
connectionError(rep) ==
  IF rep.kind = "error" THEN <<"error connecting to elasticsearch: ">> \o rep.err
  ELSE IF IsError(rep) THEN <<"elasticsearch connection error: ">> \o ResString(rep)
  ELSE <<>>

\* *ElasticsearchHandler: the client it holds (the logger is left out).
NoHandler == [built |-> FALSE, client |-> NoClient]

ElasticsearchHandler(c) == [built |-> TRUE, client |-> c]

(***************************************************************************)
(* The state: the process, and one entry per invocation of a tool handler  *)
(***************************************************************************)
\* The invocations of one run.
NumInvocations == 2

Invocations == 1..NumInvocations

VARIABLES
  environ,       \* the process environment
  phase,         \* where run() is: "start", "configured", "logger", "connecting",
                 \* "constructed", "serving", "exited"
  config,        \* the configuration loadConfig returned
  client,        \* the elasticsearch.Config the client was created with
  infoCalls,     \* the number of client.Info() calls made
  infoReply,     \* what client.Info() came to
  handler,       \* the *ElasticsearchHandler the tool handlers are methods of
  registered,    \* the tools added to the server
  runErr,        \* the error run() returned, <<>> for none
  pc,            \* "idle" (never called), "pending" (arrived, not yet dispatched),
                 \* "ready", "inflight" (in the client call), "done"
  tool,          \* the tool called
  req,           \* the arguments of the call
  ctxDone,       \* the caller's ctx is done
  calls,         \* the backend calls issued, in order
  unmarshalled,  \* the request fields json.Unmarshal was applied to, in order
  reply,         \* what the client call came to
  result         \* the *mcp.CallToolResult returned

processVars ==
  <<environ, phase, config, client, infoCalls, infoReply, handler, registered, runErr>>

invocationVars == <<pc, tool, req, ctxDone, calls, unmarshalled, reply, result>>

vars == <<environ, phase, config, client, infoCalls, infoReply, handler, registered, runErr,
          pc, tool, req, ctxDone, calls, unmarshalled, reply, result>>

\* One (tool, request) pair per invocation: any tool and any of its requests
\* for an invocation in `active`, a fixed pair for the others.
Called(i, active) ==
  IF i \in active
  THEN UNION { { [tool |-> t, req |-> r] : r \in Requests(t) } : t \in Tools }
  ELSE { [tool |-> "search", req |-> PlainRequest] }

RECURSIVE CallsOf(_, _)
CallsOf(n, active) ==
  IF n = 0 THEN { <<>> }
  ELSE { Append(s, c) : s \in CallsOf(n - 1, active), c \in Called(n, active) }

\* The process once run() is serving, started under env.
Serving(env) ==
  /\ environ = env
  /\ phase = "serving"
  /\ config = loadConfig(env).config
  /\ client = esCfg(loadConfig(env).config)
  /\ infoCalls = 1
  /\ infoReply = Response(200, JObj(NoMembers))
  /\ handler = ElasticsearchHandler(esCfg(loadConfig(env).config))
  /\ registered = Tools
  /\ runErr = <<>>

\* The server is serving; the invocations in `active` are called, the others
\* never are.
InitOf(active) ==
  \E cs \in CallsOf(NumInvocations, active) :
    /\ Serving(PlainEnviron)
    /\ pc = [i \in Invocations |-> IF i \in active THEN "ready" ELSE "idle"]
    /\ tool = [i \in Invocations |-> cs[i].tool]
    /\ req = [i \in Invocations |-> cs[i].req]
    /\ ctxDone = [i \in Invocations |-> FALSE]
    /\ calls = [i \in Invocations |-> <<>>]
    /\ unmarshalled = [i \in Invocations |-> <<>>]
    /\ reply = [i \in Invocations |-> NoReply]
    /\ result = [i \in Invocations |-> NoResult]

Init == InitOf({1})

\* The first half of a handler: it returns an error result, or issues its
\* backend call.
Start(i, run) ==
  /\ pc' = [pc EXCEPT ![i] = IF run.returned THEN "done" ELSE "inflight"]
  /\ result' = [result EXCEPT ![i] = run.result]
  /\ calls' = [calls EXCEPT ![i] = calls[i] \o run.call]
  /\ unmarshalled' = [unmarshalled EXCEPT ![i] = run.unmarshalled]
  /\ UNCHANGED <<tool, req, ctxDone, reply>>
  /\ UNCHANGED processVars

\* Finish with the result kept in one place shared by all invocations.
FinishSharedResult(i, rep, res) ==
  /\ pc' = [pc EXCEPT ![i] = "done"]
  /\ reply' = [reply EXCEPT ![i] = rep]
  /\ result' = [j \in Invocations |-> res]
  /\ UNCHANGED <<tool, req, ctxDone, calls, unmarshalled>>
  /\ UNCHANGED processVars

\* The second half: the client call returns rep and the handler returns.
Finish(i, rep, res) ==
  /\ pc' = [pc EXCEPT ![i] = "done"]
  /\ reply' = [reply EXCEPT ![i] = rep]
  /\ result' = [result EXCEPT ![i] = res]
  /\ UNCHANGED <<tool, req, ctxDone, calls, unmarshalled>>
  /\ UNCHANGED processVars

HandleSearch(i) ==
  /\ pc[i] = "ready" /\ tool[i] = "search"
  /\ \E run \in { SearchRun(req[i]) } : Start(i, run)

SearchReturns(i) ==
  /\ pc[i] = "inflight" /\ tool[i] = "search"
  /\ \E rep \in ClientOutcomes(calls[i][1], ctxDone[i], SearchResponses(calls[i][1])) :
       \E res \in { SearchFinish(req[i], rep) } : Finish(i, rep, res)

HandleGetMappings(i) ==
  /\ pc[i] = "ready" /\ tool[i] = "get_index_mappings"
  /\ \E run \in { GetMappingsRun(req[i]) } : Start(i, run)

GetMappingReturns(i) ==
  /\ pc[i] = "inflight" /\ tool[i] = "get_index_mappings"
  /\ \E rep \in ClientOutcomes(calls[i][1], ctxDone[i], GetMappingResponses(calls[i][1])) :
       \E res \in { GetMappingsFinish(req[i], rep) } : Finish(i, rep, res)

HandleListIndices(i) ==
  /\ pc[i] = "ready" /\ tool[i] = "list_indices"
  /\ \E run \in { ListIndicesRun(req[i]) } : Start(i, run)

CatIndicesReturns(i) ==
  /\ pc[i] = "inflight" /\ tool[i] = "list_indices"
  /\ \E rep \in ClientOutcomes(calls[i][1], ctxDone[i], CatIndicesResponses(calls[i][1])) :
       \E res \in { ListIndicesFinish(req[i], rep) } : Finish(i, rep, res)

\* The caller cancels: ctx is done from now on.
Cancel(i) ==
  /\ pc[i] \in {"ready", "inflight"}
  /\ ~ctxDone[i]
  /\ ctxDone' = [ctxDone EXCEPT ![i] = TRUE]
  /\ UNCHANGED <<pc, tool, req, calls, unmarshalled, reply, result>>
  /\ UNCHANGED processVars

Next ==
  \E i \in Invocations :
    \/ HandleSearch(i)
    \/ SearchReturns(i)
    \/ HandleGetMappings(i)
    \/ GetMappingReturns(i)
    \/ HandleListIndices(i)
    \/ CatIndicesReturns(i)
    \/ Cancel(i)

Spec == Init /\ [][Next]_vars

(***************************************************************************)
(* The process from its start: run()                                       *)
(***************************************************************************)
\* run() returns err.
Exit(err) ==
  /\ phase' = "exited"
  /\ runErr' = err

\* cfg, err := loadConfig()
LoadConfig ==
  /\ phase = "start"
  /\ \E r \in { loadConfig(environ) } :
       IF r.err # <<>>
       THEN /\ Exit(<<"failed to load configuration: ">> \o r.err)
            /\ UNCHANGED config
       ELSE /\ phase' = "configured"
            /\ config' = r.config
            /\ UNCHANGED runErr
  /\ UNCHANGED <<environ, client, infoCalls, infoReply, handler, registered>>
  /\ UNCHANGED invocationVars

\* log, err := newLogger(cfg.Logging)
NewLogger ==
  /\ phase = "configured"
  /\ \E ok \in BOOLEAN :
       IF ok THEN phase' = "logger" /\ UNCHANGED runErr
       ELSE Exit(<<"failed to initialize logger: ">>)
  /\ UNCHANGED <<environ, config, client, infoCalls, infoReply, handler, registered>>
  /\ UNCHANGED invocationVars

\* newElasticsearchHandler up to its client.Info() call.
NewClient ==
  /\ phase = "logger"
  /\ \E es \in { esCfg(config) } :
       IF NewClientError(es) # <<>>
       THEN /\ Exit(<<"failed to initialize Elasticsearch handler: ",
                      "error creating elasticsearch client: ">> \o NewClientError(es))
            /\ UNCHANGED <<client, infoCalls>>
       ELSE /\ phase' = "connecting"
            /\ client' = es
            /\ infoCalls' = infoCalls + 1
            /\ UNCHANGED runErr
  /\ UNCHANGED <<environ, config, infoReply, handler, registered>>
  /\ UNCHANGED invocationVars

\* client.Info() returns and newElasticsearchHandler with it.
InfoReturns ==
  /\ phase = "connecting"
  /\ \E rep \in ClientOutcomes(InfoCall, FALSE, InfoResponses) :
       /\ infoReply' = rep
       /\ IF connectionError(rep) # <<>>
          THEN /\ Exit(<<"failed to initialize Elasticsearch handler: ">>
                       \o connectionError(rep))
               /\ UNCHANGED handler
          ELSE /\ phase' = "constructed"
               /\ handler' = ElasticsearchHandler(client)
               /\ UNCHANGED runErr
  /\ UNCHANGED <<environ, config, client, infoCalls, registered>>
  /\ UNCHANGED invocationVars

\* The three s.AddTool calls and server.ServeStdio(s).
ServeStdio ==
  /\ phase = "constructed"
  /\ registered' = Tools
  /\ phase' = "serving"
  /\ UNCHANGED <<environ, config, client, infoCalls, infoReply, handler, runErr>>
  /\ UNCHANGED invocationVars

\* The server hands a call that arrived to the handler of its tool.
Dispatch(i) ==
  /\ phase = "serving"
  /\ pc[i] = "pending"
  /\ tool[i] \in registered
  /\ pc' = [pc EXCEPT ![i] = "ready"]
  /\ UNCHANGED <<tool, req, ctxDone, calls, unmarshalled, reply, result>>
  /\ UNCHANGED processVars

\* The process is started under any environment; one call, of any tool,
\* arrives.
InitStartup ==
  /\ environ \in Environs
  /\ phase = "start"
  /\ config = NoConfig
  /\ client = NoClient
  /\ infoCalls = 0
  /\ infoReply = NoReply
  /\ handler = NoHandler
  /\ registered = {}
  /\ runErr = <<>>
  /\ pc = [i \in Invocations |-> IF i = 1 THEN "pending" ELSE "idle"]
  /\ tool \in [Invocations -> Tools]
  /\ \A i \in Invocations : i # 1 => tool[i] = "search"
  /\ req = [i \in Invocations |-> PlainRequest]
  /\ ctxDone = [i \in Invocations |-> FALSE]
  /\ calls = [i \in Invocations |-> <<>>]
  /\ unmarshalled = [i \in Invocations |-> <<>>]
  /\ reply = [i \in Invocations |-> NoReply]
  /\ result = [i \in Invocations |-> NoResult]

NextStartup ==
  \/ LoadConfig
  \/ NewLogger
  \/ NewClient
  \/ InfoReturns
  \/ ServeStdio
  \/ \E i \in Invocations : Dispatch(i)
  \/ Next

SpecStartup == InitStartup /\ [][NextStartup]_vars

(***************************************************************************)
(* Concurrent invocations on one handler                                   *)
(***************************************************************************)
\* The requests of the concurrent invocations: one per tool, and a search
\* that fails validation.
ConcurrentRequests ==
  { [tool |-> "list_indices", req |-> [PlainRequest EXCEPT !.pattern = Given(<<"logs-", "*">>)]],
    [tool |-> "get_index_mappings", req |-> PlainRequest],
    [tool |-> "search", req |-> [PlainRequest EXCEPT !.size = Given(5)]],
    [tool |-> "search", req |-> [PlainRequest EXCEPT !.query = Given(Texts.cut)]] }

\* The server is serving and every invocation has been called.
InitConcurrent ==
  /\ Serving(PlainEnviron)
  /\ pc = [i \in Invocations |-> "ready"]
  /\ \E cs \in [Invocations -> ConcurrentRequests] :
       /\ tool = [i \in Invocations |-> cs[i].tool]
       /\ req = [i \in Invocations |-> cs[i].req]
  /\ ctxDone = [i \in Invocations |-> FALSE]
  /\ calls = [i \in Invocations |-> <<>>]
  /\ unmarshalled = [i \in Invocations |-> <<>>]
  /\ reply = [i \in Invocations |-> NoReply]
  /\ result = [i \in Invocations |-> NoResult]

SpecConcurrent == InitConcurrent /\ [][Next]_vars

(***************************************************************************)
(* Properties                                                              *)
(***************************************************************************)
Started(i) == pc[i] \in {"inflight", "done"}

Failure(i) == pc[i] = "done" /\ result[i].isError

Success(i) == pc[i] = "done" /\ ~result[i].isError

NoBackendCall(i) == calls[i] = <<>> /\ reply[i] = NoReply

MissingIndex == <<"Missing 'index' parameter">>

\* Request i names an index.
HasIndex(i) == ~RequireString(req[i].index).err /\ RequireString(req[i].index).v # <<>>

\* What handleSearch reads from request i.
SizeOf(i) == GetInt(req[i].size, DefaultSize)

FromOf(i) == GetInt(req[i].from, 0)

QueryOf(i) == GetString(req[i].query, DefaultQueryString)

OptionalTexts(i) ==
  ("sort" :> GetString(req[i].sort, <<>>)) @@ ("aggs" :> GetString(req[i].aggs, <<>>)) @@
  ("_source" :> GetString(req[i].source, <<>>)) @@
  ("highlight" :> GetString(req[i].highlight, <<>>))

\* The Go type each sub-field must decode into.
ShapeOf(key) == IF key \in {"query", "aggs", "highlight"} THEN "map" ELSE "any"

\* A supplied sub-field that is not JSON of the expected shape.
Malformed(key, text) == text # <<>> /\ Unmarshal(text, ShapeOf(key)).err # ErrNone

WellFormedFields(i) ==
  /\ ~Malformed("query", QueryOf(i))
  /\ \A k \in DOMAIN OptionalTexts(i) : ~Malformed(k, OptionalTexts(i)[k])

\* The pagination bounds, over the integers.
PaginationOK(size, from) ==
  /\ 0 <= size /\ size <= MaxResultWindow
  /\ from >= 0
  /\ from + size <= MaxResultWindow

PaginationTexts ==
  { <<"Size parameter must be between 0 and 10000">>, <<"From parameter must be >= 0">>,
    <<"from + size must not exceed 10000">> }

\* C1: in handleSearch, for a request with an index and well-formed JSON
\* sub-fields, validation passes (the Search call is issued) if and only if
\* 0 <= size <= 10000, from >= 0 and from + size <= 10000; a pair violating a
\* bound ends in a parameter-error result and no Search call is issued.
C1_PaginationBounds ==
  \A i \in Invocations :
    (tool[i] = "search" /\ Started(i) /\ HasIndex(i) /\ WellFormedFields(i))
    => /\ calls[i] # <<>> <=> PaginationOK(SizeOf(i), FromOf(i))
       /\ ~PaginationOK(SizeOf(i), FromOf(i))
            => Failure(i) /\ result[i].text \in PaginationTexts /\ NoBackendCall(i)

\* A request whose own values are in error: no index, size outside
\* [0, 10000], from below 0, or a supplied sub-field that is not JSON of the
\* expected shape.
ParameterError(i) ==
  \/ RequireString(req[i].index).err
  \/ /\ tool[i] = "search"
     /\ \/ SizeOf(i) < 0 \/ SizeOf(i) > MaxResultWindow
        \/ FromOf(i) < 0
        \/ ~WellFormedFields(i)

\* The results the handlers give for parameter errors.
ParameterErrorText(text) ==
  \/ text = MissingIndex
  \/ text \in PaginationTexts
  \/ Len(text) >= 3 /\ text[1] = "Invalid " /\ text[3] = " JSON: "

\* C2: fail fast, no partial dispatch.  In handleSearch and handleGetMappings
\* a request with a parameter error ends in an error result without any
\* backend call having been made, and no invocation that returns a
\* parameter-error result has made a backend call.
C2_FailFast ==
  \A i \in Invocations :
    tool[i] \in {"search", "get_index_mappings"} =>
      /\ (Started(i) /\ ParameterError(i)) => Failure(i) /\ NoBackendCall(i)
      /\ (Failure(i) /\ ParameterErrorText(result[i].text)) => NoBackendCall(i)

C2_Witness ==
  \E i \in Invocations :
    /\ tool[i] = "search" /\ Failure(i) /\ ~RequireString(req[i].index).err
    /\ PaginationOK(SizeOf(i), FromOf(i))
    /\ ~Malformed("query", QueryOf(i)) /\ Malformed("highlight", OptionalTexts(i)["highlight"])
    /\ NoBackendCall(i)

\* The query is absent, "", "{}" or text that parses to an empty object.
EmptyQuery(i) ==
  \/ QueryOf(i) \in {<<>>, DefaultQueryString}
  \/ UnmarshalAny(QueryOf(i)).err = ErrNone /\ UnmarshalAny(QueryOf(i)).val = JObj(NoMembers)

\* The query is non-empty text that is not JSON.
InvalidQuery(i) == QueryOf(i) # <<>> /\ UnmarshalAny(QueryOf(i)).err # ErrNone

\* C3: in handleSearch an absent, empty, "{}" or empty-object query is
\* assembled as {"match_all": {}}; a non-empty, syntactically invalid query
\* ends in an error result before dispatch (the invalid-query error once index
\* and pagination passed) and none of sort, aggs, _source, highlight is parsed.
C3_QueryDefault ==
  \A i \in Invocations :
    (tool[i] = "search" /\ Started(i)) =>
      /\ (EmptyQuery(i) /\ calls[i] # <<>>) => calls[i][1].body.m["query"] = MatchAll
      /\ InvalidQuery(i) =>
           /\ Failure(i) /\ NoBackendCall(i)
           /\ \A k \in DOMAIN unmarshalled[i] : unmarshalled[i][k] = "query"
           /\ (~RequireString(req[i].index).err /\ PaginationOK(SizeOf(i), FromOf(i)))
                => /\ result[i].text = InvalidJSON("query", UnmarshalAny(QueryOf(i)).err)
                   /\ unmarshalled[i] = <<"query">>

C3_Witness ==
  \E i \in Invocations :
    /\ tool[i] = "search" /\ calls[i] # <<>> /\ QueryOf(i) = Texts.blankObject
    /\ calls[i][1].body.m["query"] = MatchAll

\* A null or empty value.
Placeholder(v) == v \in {JNull, JObj(NoMembers), JArr(<<>>), JStr(<<>>)}

\* C4: in the body handleSearch assembles, each of sort, aggs, _source,
\* highlight and timeout is present if and only if its input string was
\* supplied non-empty, query is the parsed query input (match_all for an empty
\* one), size is the requested size, and no optional key carries a null or
\* empty placeholder, also when the supplied text is the JSON text null.
C4_OnlySuppliedKeys ==
  \A i \in Invocations :
    (tool[i] = "search" /\ HasIndex(i) /\ calls[i] # <<>>) =>
      LET body == calls[i][1].body
          texts == OptionalTexts(i) @@ ("timeout" :> GetString(req[i].timeout, <<>>)) IN
      /\ \A k \in DOMAIN texts : k \in Keys(body) <=> texts[k] # <<>>
      /\ body.m["query"] = IF EmptyQuery(i) \/ QueryOf(i) = Texts.null THEN MatchAll
                           ELSE UnmarshalAny(QueryOf(i)).val
      /\ body.m["size"] = JNum(SizeOf(i))
      /\ \A k \in DOMAIN texts : k \in Keys(body) => ~Placeholder(body.m[k])

\* text occurs in message, token for token.
Echoes(message, text) ==
  \E k \in 0..(Len(message) - Len(text)) : SubSeq(message, k + 1, k + Len(text)) = text

\* C5: in handleSearch a sub-field that fails to parse fails the operation
\* with an error result that names the malformed field and echoes the
\* offending input string.
C5_NamesFieldAndEchoes ==
  \A i \in Invocations :
    (tool[i] = "search" /\ HasIndex(i) /\ Failure(i) /\ Len(result[i].text) >= 3
       /\ result[i].text[1] = "Invalid ") =>
      \E k \in {"query", "sort", "aggs", "_source", "highlight"} :
        LET text == (OptionalTexts(i) @@ ("query" :> QueryOf(i)))[k] IN
        /\ Malformed(k, text)
        /\ result[i].text[2] = (IF k = "aggs" THEN "aggregations" ELSE k)
        /\ Echoes(result[i].text, text)

\* The reply holds at least one aggregation.
HasAggregations(body) ==
  /\ "aggregations" \in Keys(body)
  /\ body.m["aggregations"].t = "object"
  /\ Keys(body.m["aggregations"]) # {}

\* C6: a successful handleSearch result has the aggregations key if and only
\* if the backend reply holds at least one aggregation; when present it
\* equals the backend's, and for none (missing, null, {}) the key is left out.
C6_AggregationsKey ==
  \A i \in Invocations :
    (tool[i] = "search" /\ Success(i)) =>
      /\ "aggregations" \in Keys(result[i].payload) <=> HasAggregations(reply[i].body)
      /\ "aggregations" \in Keys(result[i].payload)
           => result[i].payload.m["aggregations"] = reply[i].body.m["aggregations"]

C6_Witness ==
  \E i \in Invocations :
    /\ tool[i] = "search" /\ Success(i)
    /\ "aggregations" \in Keys(reply[i].body)
    /\ reply[i].body.m["aggregations"] = JObj(NoMembers)
    /\ "aggregations" \notin Keys(result[i].payload)

\* A result that reports the cancellation of the backend call.
CancellationFailure(res) ==
  /\ res.isError
  /\ Len(res.text) = 2
  /\ res.text[1] \in {"Failed to execute search: ", "Failed to get mappings: ",
                      "Failed to list indices: "}
  /\ res.text[2] = "context canceled"

\* C7: in each handler, once ctx is done while the backend call is in flight,
\* the call is aborted: the only way the invocation goes on is to return the
\* cancellation failure; it never returns a success or a backend reply.
C7_CancelAborts ==
  [][\A i \in Invocations :
       (pc[i] = "inflight" /\ ctxDone[i]) =>
         \/ pc'[i] = "inflight"
         \/ /\ pc'[i] = "done"
            /\ CancellationFailure(result'[i])
            /\ reply'[i] = ClientError(ContextCanceled)]_vars

C7_Witness ==
  \E i \in Invocations :
    /\ tool[i] = "search" /\ pc[i] = "done" /\ ctxDone[i] /\ calls[i] # <<>>
    /\ CancellationFailure(result[i])

Names(rows) == [k \in DOMAIN rows |-> Field(AsObject(rows[k]), "index").s]

EntryNames(doc) == [k \in DOMAIN doc.m["indices"].a |-> doc.m["indices"].a[k].m["name"].s]

\* C8: a successful handleListIndices with pattern P (default "*") asks the
\* backend for P and returns one entry per index the backend reports, in the
\* backend's order, with pattern = P and total_indices = the number of
\* entries; for "logs-*" over logs-a, logs-b, metrics-a these are the two
\* logs-* entries and total_indices = 2.
C8_ListIndices ==
  \A i \in Invocations :
    (tool[i] = "list_indices" /\ Success(i)) =>
      LET P == GetString(req[i].pattern, DefaultPattern)
          doc == result[i].payload
          rows == reply[i].body.a IN
      /\ calls[i][1].index = P
      /\ doc.m["pattern"] = JStr(P)
      /\ EntryNames(doc) = Names(rows)
      /\ \A k \in DOMAIN rows :
           /\ doc.m["indices"].a[k].m["health"] = Field(rows[k], "health")
           /\ doc.m["indices"].a[k].m["docs_count"] = Field(rows[k], "docs.count")
      /\ doc.m["total_indices"] = JNum(Len(doc.m["indices"].a))
      /\ (P = <<"logs-", "*">> /\ reply[i].body = JArr(Matching(P)))
           => /\ EntryNames(doc) = << <<"logs-", "a">>, <<"logs-", "b">> >>
              /\ doc.m["total_indices"] = JNum(2)

C8_Witness ==
  \E i \in Invocations :
    /\ tool[i] = "list_indices" /\ Success(i)
    /\ req[i].pattern = Given(<<"logs-", "*">>)
    /\ result[i].payload.m["total_indices"] = JNum(2)

\* C9: in handleGetMappings and handleSearch an absent index gives the
\* "Missing 'index' parameter" error without a backend call, whatever the
\* other parameters, and no malformed or out-of-range value gives that error.
C9_MissingIndexDistinct ==
  \A i \in Invocations :
    (tool[i] \in {"search", "get_index_mappings"} /\ pc[i] = "done") =>
      /\ ~req[i].index.set
           => result[i] = ToolResultError(MissingIndex) /\ NoBackendCall(i)
      /\ (result[i].isError /\ result[i].text = MissingIndex) => ~req[i].index.set

\* C10: every dispatched search or schema request names a non-empty index;
\* with index present but "" both handlers return a parameter error and
\* issue no backend call.
C10_IndexNonEmpty ==
  \A i \in Invocations :
    (tool[i] \in {"search", "get_index_mappings"} /\ Started(i)) =>
      /\ calls[i] # <<>> => calls[i][1].index # <<>>
      /\ req[i].index = Given(<<>>) => Failure(i) /\ NoBackendCall(i)

\* Request i has a string index and, for a search, size, from and from + size
\* within bounds and sub-fields that decode.
PassesValidation(i) ==
  /\ tool[i] # "list_indices" => ~RequireString(req[i].index).err
  /\ tool[i] = "search" => PaginationOK(SizeOf(i), FromOf(i)) /\ WellFormedFields(i)

\* The reply decodes into what the handler of tool t decodes it into.
Decodes(t, rep) ==
  /\ ~rep.malformed
  /\ CASE t = "search" -> SearchShapeOK(rep.body)
       [] t = "get_index_mappings" -> MapShapeOK(rep.body)
       [] OTHER -> IndicesShapeOK(rep.body)

\* The call failed: transport error, error status or undecodable reply.
FailedCall(t, rep) == rep.kind = "error" \/ rep.status > 299 \/ ~Decodes(t, rep)

\* The failure result each handler gives for each kind of failed call.
BackendFailureText(t, rep) ==
  IF rep.kind = "error"
  THEN <<CASE t = "search" -> "Failed to execute search: "
           [] t = "get_index_mappings" -> "Failed to get mappings: "
           [] OTHER -> "Failed to list indices: ">>
  ELSE IF rep.status > 299
  THEN <<IF t = "search" THEN "Elasticsearch search error: " ELSE "Elasticsearch error: ">>
  ELSE <<"Failed to decode response: ">>

\* C11: every invocation issues at most one backend call, and exactly one once
\* it has passed parameter validation; a call that fails (transport error,
\* error status, undecodable reply) is not retried: the step that takes the
\* reply ends the invocation with the failure result for that reply.
C11_OneBackendCall ==
  \A i \in Invocations :
    /\ Len(calls[i]) <= 1
    /\ (Started(i) /\ PassesValidation(i)) => Len(calls[i]) = 1
    /\ reply[i] # NoReply =>
         /\ pc[i] = "done" /\ Len(calls[i]) = 1
         /\ FailedCall(tool[i], reply[i]) =>
              /\ result[i].isError
              /\ SubSeq(result[i].text, 1, 1) = BackendFailureText(tool[i], reply[i])

C11_Witness ==
  \E i \in Invocations :
    /\ tool[i] = "get_index_mappings" /\ pc[i] = "done" /\ ~ctxDone[i]
    /\ reply[i].kind = "error" /\ Len(calls[i]) = 1 /\ result[i].isError

\* C12: every handler returns with a nil Go error; a parameter error, an
\* error status, a transport failure and a decode failure each end the
\* invocation with an error result; a success result is returned only after
\* validation, the backend call, the status check and decoding all succeeded.
C12_ErrorsAreFailureResults ==
  \A i \in Invocations :
    pc[i] = "done" =>
      /\ ~result[i].goErr
      /\ (ParameterError(i) \/ calls[i] = <<>>) => result[i].isError
      /\ (reply[i] # NoReply /\ FailedCall(tool[i], reply[i])) => result[i].isError
      /\ ~result[i].isError =>
           /\ ~ParameterError(i) /\ Len(calls[i]) = 1
           /\ reply[i].kind = "response" /\ reply[i].status <= 299
           /\ Decodes(tool[i], reply[i])

C12_Witness ==
  \E i \in Invocations :
    /\ tool[i] = "search" /\ pc[i] = "done"
    /\ reply[i].kind = "response" /\ reply[i].status = 404
    /\ result[i].isError /\ ~result[i].goErr

\* C16: in a successful handleSearch result, hits is the hit sequence of the
\* backend's reply, element for element in the reply's order (null when the
\* reply carries none), and from and size are the request's values.
C16_HitsInBackendOrder ==
  \A i \in Invocations :
    (tool[i] = "search" /\ Success(i)) =>
      LET doc == result[i].payload
          hits == Field(AsObject(Field(reply[i].body, "hits")), "hits") IN
      /\ doc.m["hits"] = hits
      /\ Len(doc.m["hits"].a) = Len(hits.a)
      /\ \A k \in DOMAIN hits.a : doc.m["hits"].a[k] = hits.a[k]
      /\ doc.m["from"] = JNum(FromOf(i))
      /\ doc.m["size"] = JNum(SizeOf(i))

C16_Witness ==
  \E i \in Invocations :
    /\ tool[i] = "search" /\ Success(i)
    /\ req[i].size = Given(5) /\ req[i].from = Given(1)
    /\ Field(AsObject(Field(reply[i].body, "hits")), "hits") = JArr(<<Doc("2"), Doc("1")>>)
    /\ result[i].payload.m["hits"] = JArr(<<Doc("2"), Doc("1")>>)
    /\ result[i].payload.m["size"] = JNum(5)

\* C18: in every successful handleListIndices result, indices is a sequence
\* whose length is total_indices; when the backend reports no index for the
\* pattern it is the empty sequence, not null, with total_indices = 0.
C18_IndicesIsSequence ==
  \A i \in Invocations :
    (tool[i] = "list_indices" /\ Success(i)) =>
      LET doc == result[i].payload IN
      /\ "indices" \in Keys(doc)
      /\ doc.m["indices"].t = "array"
      /\ doc.m["total_indices"] = JNum(Len(doc.m["indices"].a))

\* C19: wraparound does not defeat the from + size check: a search with size
\* in [0, 10000] and from anywhere in the non-negative range of int whose sum
\* from + size, over the integers, exceeds 10000 is rejected without a call.
C19_NoWraparound ==
  \A i \in Invocations :
    (/\ tool[i] = "search" /\ Started(i) /\ HasIndex(i)
     /\ 0 <= SizeOf(i) /\ SizeOf(i) <= MaxResultWindow
     /\ 0 <= FromOf(i) /\ FromOf(i) <= MaxInt
     /\ FromOf(i) + SizeOf(i) > MaxResultWindow)
    => Failure(i) /\ NoBackendCall(i)

\* The checks of a search request in their fixed order.
CheckOrder ==
  <<"index", "size", "from", "from + size", "query", "sort", "aggs", "_source", "highlight">>

\* Check c of request i fails, and the error reported for it.
CheckFails(i, c) ==
  CASE c = "index" -> RequireString(req[i].index).err
    [] c = "size" -> SizeOf(i) < 0 \/ SizeOf(i) > MaxResultWindow
    [] c = "from" -> FromOf(i) < 0
    [] c = "from + size" -> FromOf(i) + SizeOf(i) > MaxResultWindow
    [] OTHER -> Malformed(c, (OptionalTexts(i) @@ ("query" :> QueryOf(i)))[c])

CheckError(i, c) ==
  CASE c = "index" -> MissingIndex
    [] c = "size" -> <<"Size parameter must be between 0 and 10000">>
    [] c = "from" -> <<"From parameter must be >= 0">>
    [] c = "from + size" -> <<"from + size must not exceed 10000">>
    [] OTHER -> InvalidJSON(IF c = "aggs" THEN "aggregations" ELSE c,
                            Unmarshal((OptionalTexts(i) @@ ("query" :> QueryOf(i)))[c],
                                      ShapeOf(c)).err)

\* The positions of the failing checks of request i.
FailingChecks(i) == { k \in DOMAIN CheckOrder : CheckFails(i, CheckOrder[k]) }

FirstFailing(i) == CHOOSE k \in FailingChecks(i) : \A j \in FailingChecks(i) : k <= j

\* C20: a search with invalid parameters reports exactly one error, that of
\* the first failing check in the order index, size, from, from + size, query,
\* sort, aggs, _source, highlight; no later sub-field is decoded and no call
\* is made; with no failing check the Search call is issued.
C20_FirstFailingCheck ==
  \A i \in Invocations :
    (tool[i] = "search" /\ Started(i) /\ (HasIndex(i) \/ RequireString(req[i].index).err)) =>
      IF FailingChecks(i) = {} THEN calls[i] # <<>>
      ELSE /\ pc[i] = "done"
           /\ result[i] = ToolResultError(CheckError(i, CheckOrder[FirstFailing(i)]))
           /\ NoBackendCall(i)
           /\ \A k \in DOMAIN unmarshalled[i] :
                \E j \in 1..FirstFailing(i) : CheckOrder[j] = unmarshalled[i][k]

\* The authentication methods set on an elasticsearch.Config.
AuthMethods(es) ==
  (IF es.APIKey # "" THEN {"api key"} ELSE {}) \cup
  (IF es.Username # "" \/ es.Password # "" THEN {"basic"} ELSE {})

\* C13: the client newElasticsearchHandler creates has exactly one
\* authentication method: the API key alone when APIKey is configured, user
\* name and password left unset even if both are configured; otherwise basic
\* authentication alone when both are configured; never both methods.
C13_ExactlyOneAuth ==
  client # NoClient =>
    /\ Cardinality(AuthMethods(client)) = 1
    /\ config.APIKey # "" =>
         client.APIKey = config.APIKey /\ client.Username = "" /\ client.Password = ""
    /\ (config.APIKey = "" /\ config.Username # "" /\ config.Password # "") =>
         /\ client.APIKey = ""
         /\ client.Username = config.Username /\ client.Password = config.Password

C13_Witness ==
  /\ phase = "serving"
  /\ environ.ES_API_KEY # "" /\ environ.ES_USERNAME # "" /\ environ.ES_PASSWORD # ""
  /\ AuthMethods(client) = {"api key"}

\* A call has been handed to a tool handler.
Served(i) == pc[i] \in {"ready", "inflight", "done"}

\* Authentication is configured: an API key, or user name and password.
AuthSupplied == environ.ES_API_KEY # "" \/ (environ.ES_USERNAME # "" /\ environ.ES_PASSWORD # "")

\* C14: tools are registered and calls are served only after the
\* configuration was validated and the one client.Info() check succeeded;
\* when authentication is absent, the Info call fails or it is answered with
\* an error status, run returns an error with no tool registered and no call
\* ever served.
C14_StartupOrdering ==
  /\ infoCalls <= 1
  /\ (phase = "serving" \/ registered # {} \/ \E i \in Invocations : Served(i)) =>
       /\ validateConfig(config) = <<>> /\ config = loadConfig(environ).config
       /\ infoCalls = 1
       /\ infoReply.kind = "response" /\ infoReply.status <= 299
       /\ handler = ElasticsearchHandler(client)
       /\ registered = Tools
       /\ runErr = <<>>
  /\ (~AuthSupplied \/ infoReply.kind = "error" \/ infoReply.status > 299) =>
       /\ phase \in {"start", "exited"}
       /\ phase = "exited" => runErr # <<>>
       /\ handler = NoHandler /\ registered = {}
       /\ \A i \in Invocations : ~Served(i)

C14_Witness ==
  /\ phase = "exited" /\ AuthSupplied
  /\ infoCalls = 1 /\ infoReply.status = 401
  /\ runErr # <<>> /\ registered = {}
  /\ \A i \in Invocations : ~Served(i)

\* C15: ES_URL is required: loadConfig fails when it is unset or empty, and
\* succeeds only with a URL, authentication (an API key, or user name and
\* password) and a valid log level.
C15_URLRequired ==
  phase # "start" =>
    /\ environ.ES_URL = "" => (phase = "exited" /\ config = NoConfig /\ runErr # <<>>)
    /\ config # NoConfig =>
         /\ environ.ES_URL # "" /\ AuthSupplied
         /\ getEnv(environ, "MCP_ES_LOG_LEVEL", "info") \in validLogLevels

\* What the handler of tool t makes of request r and backend reply rep when it
\* runs alone.
RunAlone(t, r) ==
  CASE t = "search" -> SearchRun(r)
    [] t = "get_index_mappings" -> GetMappingsRun(r)
    [] OTHER -> ListIndicesRun(r)

ResultAlone(t, r, rep) ==
  IF RunAlone(t, r).returned THEN RunAlone(t, r).result
  ELSE CASE t = "search" -> SearchFinish(r, rep)
         [] t = "get_index_mappings" -> GetMappingsFinish(r, rep)
         [] OTHER -> ListIndicesFinish(r, rep)

\* The state of invocation i.
Own(i) == <<pc[i], tool[i], req[i], ctxDone[i], calls[i], unmarshalled[i], reply[i], result[i]>>

\* C17: concurrent invocations are independent.  In every interleaving each
\* step changes the state of one invocation only and leaves the handler and
\* its client as they were, and each invocation issues the call and returns
\* the result it would alone with its parameters and its backend reply.
C17_Independent ==
  /\ [](\A i \in Invocations :
          /\ Started(i) => calls[i] = RunAlone(tool[i], req[i]).call
          /\ pc[i] = "done" => result[i] = ResultAlone(tool[i], req[i], reply[i])
          /\ pc[i] # "done" => result[i] = NoResult /\ reply[i] = NoReply)
  /\ [][/\ handler' = handler /\ client' = client
        /\ \E i \in Invocations : \A j \in Invocations \ {i} : Own(j)' = Own(j)]_vars

C17_Witness ==
  \E i, j \in Invocations :
    /\ tool[i] = "search" /\ pc[i] = "inflight"
    /\ tool[j] = "list_indices" /\ pc[j] = "done" /\ ~result[j].isError

\* C21: in every search dispatched, the body has track_total_hits (true)
\* exactly when the parameter is true and the WithTrackTotalHits option always
\* carries the parameter's value; a non-empty timeout is both in the body and
\* a WithTimeout option, an empty one is in neither; query, size and from are
\* always in the body.
C21_TrackTotalHitsAndTimeout ==
  \A i \in Invocations :
    (tool[i] = "search" /\ calls[i] # <<>>) =>
      LET call == calls[i][1]
          trackTotalHits == GetBool(req[i].track_total_hits, TRUE)
          timeout == GetString(req[i].timeout, <<>>) IN
      /\ "track_total_hits" \in Keys(call.body) <=> trackTotalHits
      /\ trackTotalHits => call.body.m["track_total_hits"] = JBool(TRUE)
      /\ call.trackTotalHits.set /\ call.trackTotalHits.v = trackTotalHits
      /\ timeout # <<>> =>
           /\ "timeout" \in Keys(call.body) /\ call.body.m["timeout"] = JStr(timeout)
           /\ call.timeout = Option(timeout)
      /\ timeout = <<>> => "timeout" \notin Keys(call.body) /\ call.timeout = NoOption
      /\ {"query", "size", "from"} \subseteq Keys(call.body)

C21_Witness ==
  \E i \in Invocations :
    /\ tool[i] = "search" /\ calls[i] # <<>>
    /\ req[i].track_total_hits = Given(FALSE) /\ req[i].timeout = Given(<<"5s">>)
    /\ "track_total_hits" \notin Keys(calls[i][1].body)
    /\ calls[i][1].trackTotalHits.set /\ ~calls[i][1].trackTotalHits.v
    /\ calls[i][1].timeout = Option(<<"5s">>)
    /\ calls[i][1].body.m["timeout"] = JStr(<<"5s">>)

====
